---- MODULE Spec2Model ----
(***************************************************************************)
(* Jobify ML: the label-alignment / batching / evaluation pipeline         *)
(* (ml/src/utils/encoder.py, dataset.py, evaluation.py, driven as in       *)
(* ml/src/models/jobbert.py), the command-line pipeline (ml/src/main.py)   *)
(* and the document cleaner (ml/src/utils/input_to_text.py).               *)
(*                                                                         *)
(* Python lists are sequences; a Python index k is the TLA+ index k + 1.   *)
(* A text or a path is a sequence of one-character strings.                *)
(***************************************************************************)
EXTENDS Integers, Sequences, FiniteSets, TLC

VARIABLES
    pc,          \* position of the running script / function
    error,       \* the exception that ended the run, "none" while there is none
    examples,    \* zip(train_X, train_Y): the training Examples [tokens, tags]
    encoded,     \* train_encoded: the encodings built so far
    val_examples, \* zip(val_X, val_Y): the validation Examples
    val_encoded, \* val_encoded: the encodings built so far
    batch_size,  \* make_dataset's batch_size argument
    dataset,     \* train_data; the batches handed to get_seqeval_input
    val_data,    \* val_data
    model,       \* the classifier get_seqeval_input calls
    all_preds,   \* get_seqeval_input's first result
    all_labels,  \* get_seqeval_input's second result
    f1,          \* evaluate_ner's result
    filepath,    \* run_main_pipeline's filepath
    userType,    \* run_main_pipeline's userType
    contents,    \* the text stored in the file at filepath
    effects,     \* what run_main_pipeline has done so far, in order
    stdout,      \* the lines printed
    text,        \* clean_cv_text's argument
    cleaned      \* clean_cv_text's result

vars == <<pc, error, examples, encoded, val_examples, val_encoded, batch_size,
          dataset, val_data, model, all_preds, all_labels, f1, filepath, userType,
          contents, effects, stdout, text, cleaned>>

trainVars == <<examples, encoded, val_examples, val_encoded, batch_size, val_data>>
evalVars == <<dataset, model, all_preds, all_labels, f1>>
mainVars == <<filepath, userType, contents, effects, stdout>>
cleanVars == <<text, cleaned>>

-----------------------------------------------------------------------------
(* Bounds of the model.                                                    *)

\* Most words of one Example.
MaxWords == 2
\* Most Examples of one data set.
MaxN == 2
\* Largest batch_size tried.
MaxBatch == 2

\* How many sub-words the tokenizer may cut one word into: none (a word of
\* characters the tokenizer drops), one, two, or enough to fill the window.
SubwordCounts == {0, 1, 2, 254}

-----------------------------------------------------------------------------
(* Helpers.                                                                *)

SeqsUpTo(S, n) == UNION {[1..k -> S] : k \in 0..n}

Min(a, b) == IF a <= b THEN a ELSE b

\* ceil(a / b) for b >= 1
CeilDiv(a, b) == (a + b - 1) \div b

RECURSIVE Sum(_, _)
\* tokens[1] + ... + tokens[k]
Sum(s, k) == IF k = 0 THEN 0 ELSE s[k] + Sum(s, k - 1)

-----------------------------------------------------------------------------
(* The label vocabulary (jobbert.py).                                      *)

label_list == <<"O", "B-SKILL", "I-SKILL">>

\* id2label[i]: ids are 0-based
id2label(i) == label_list[i + 1]

TagIds == 0..(Len(label_list) - 1)

-----------------------------------------------------------------------------
(* The tokenizer, an external collaborator: called on pre-split words with *)
(* truncation at max_length.  A word is given by the number of sub-words   *)
(* the tokenizer cuts it into.  The output starts and ends with a special  *)
(* token; truncation drops trailing sub-words and keeps both specials.     *)

max_length == 256

\* word_ids() entry of a special token (Python None)
None == -1

\* token ids of the two special tokens and of a sub-word of word w (0-based)
ClsId == 101
SepId == 102
PieceId(w) == 1000 + w

\* sub-words kept after truncation
Kept(tokens) == Min(Sum(tokens, Len(tokens)), max_length - 2)

\* the 0-based word that sub-word p (1-based, specials not counted) belongs to
WordOf(tokens, p) ==
    (CHOOSE w \in 1..Len(tokens) : Sum(tokens, w - 1) < p /\ p <= Sum(tokens, w)) - 1

\* tokenized.word_ids()
WordIds(tokens) ==
    LET n == Kept(tokens) + 2
    IN  [i \in 1..n |-> IF i = 1 \/ i = n THEN None ELSE WordOf(tokens, i - 1)]

InputIds(tokens) ==
    LET n == Kept(tokens) + 2
    IN  [i \in 1..n |-> IF i = 1 THEN ClsId
                        ELSE IF i = n THEN SepId
                        ELSE PieceId(WordOf(tokens, i - 1))]

AttentionMask(tokens) == [i \in 1..(Kept(tokens) + 2) |-> 1]

-----------------------------------------------------------------------------
(* tokenize_and_align_labels (encoder.py).                                 *)

\* prev_word_id when the loop reaches position i
PrevWordId(word_ids, i) == IF i = 1 THEN None ELSE word_ids[i - 1]

\* position i takes the elif branch: a word, and not the previous position's
FirstOfWord(word_ids, i) ==
    word_ids[i] # None /\ word_ids[i] # PrevWordId(word_ids, i)

\* faulty variant of MaskAt: every sub-word of a word counts toward the loss
MaskAtEverySubword(word_ids, i) == IF word_ids[i] # None THEN 1 ELSE 0

\* the value appended to mask at position i
MaskAt(word_ids, i) == IF FirstOfWord(word_ids, i) THEN 1 ELSE 0

\* faulty variant of LabelAt: a continuation sub-word repeats its word's tag
LabelAtAllSubwords(word_ids, tags, i) ==
    IF word_ids[i] # None THEN tags[word_ids[i] + 1] ELSE 0

\* the value appended to labels at position i
LabelAt(word_ids, tags, i) ==
    IF FirstOfWord(word_ids, i) THEN tags[word_ids[i] + 1] ELSE 0

\* tags[word_id] raises IndexError: some position takes the elif branch with
\* a word index outside tags
AlignRaises(word_ids, tags) ==
    \E i \in 1..Len(word_ids) :
        FirstOfWord(word_ids, i) /\ word_ids[i] >= Len(tags)

\* the returned encoding (word_ids kept beside it, as tokenized.word_ids())
tokenize_and_align_labels(tokens, tags) ==
    LET word_ids == WordIds(tokens)
    IN  [input_ids      |-> InputIds(tokens),
         attention_mask |-> AttentionMask(tokens),
         word_ids       |-> word_ids,
         labels         |-> [i \in 1..Len(word_ids) |-> LabelAt(word_ids, tags, i)],
         label_mask     |-> [i \in 1..Len(word_ids) |-> MaskAt(word_ids, i)]]

-----------------------------------------------------------------------------
(* make_dataset (dataset.py).                                              *)

Fields == {"input_ids", "attention_mask", "labels", "label_mask"}

\* dtype tf gives each component: lists of Python ints become int32 tensors
component_dtype == [f \in Fields |-> "int32"]

\* padding_values: value and the dtype tf gives the Python literal
padding_values ==
    [input_ids      |-> [value |-> 0, dtype |-> "int32"],
     attention_mask |-> [value |-> 0, dtype |-> "int32"],
     labels         |-> [value |-> 0, dtype |-> "int32"],
     label_mask     |-> [value |-> 0, dtype |-> "float32"]]

\* from_tensor_slices turns each list of lists into one dense tensor: the
\* lists must all have one length, or the conversion raises ValueError
Rectangular(encodings) ==
    \A i, j \in 1..Len(encodings) :
        Len(encodings[i].input_ids) = Len(encodings[j].input_ids)

\* padded_batch refuses a padding value whose dtype is not its component's
PaddingTypeMismatch == \E f \in Fields : padding_values[f].dtype # component_dtype[f]

\* one row padded to length n
Pad(row, n, f) ==
    [j \in 1..n |-> IF j <= Len(row) THEN row[j] ELSE padding_values[f].value]

\* padded_batch: consecutive chunks of B encodings, each chunk padded to its
\* longest row
padded_batch(encodings, B) ==
    [b \in 1..CeilDiv(Len(encodings), B) |->
        LET lo == (b - 1) * B + 1
            hi == Min(b * B, Len(encodings))
            width == CHOOSE m \in {Len(encodings[k].input_ids) : k \in lo..hi} :
                        \A k \in lo..hi : Len(encodings[k].input_ids) <= m
        IN  [f \in Fields |->
                [r \in 1..(hi - lo + 1) |-> Pad(encodings[lo + r - 1][f], width, f)]]]

\* def make_dataset(encodings, batch_size=16)
default_batch_size == 16

\* what make_dataset(encodings, batch_size) ends with
make_dataset_error(encodings) ==
    IF ~Rectangular(encodings) THEN "ValueError"
    ELSE IF PaddingTypeMismatch THEN "TypeError"
    ELSE "none"

-----------------------------------------------------------------------------
(* The training script (jobbert.py): encode the training and the           *)
(* validation Examples, then batch the two.                                *)

Tokens == SeqsUpTo(SubwordCounts, MaxWords)

Tags == SeqsUpTo(TagIds, MaxWords)

\* every Example, its tags as long as its tokens or not
Examples == {[tokens |-> t, tags |-> g] : t \in Tokens, g \in Tags}

\* the fixed Example that fills a data set up: "machine learning", tagged
\* B-SKILL I-SKILL, with "learning" cut in two
Corpus == {[tokens |-> <<1, 2>>, tags |-> <<1, 2>>]}

\* the validation splits tried: none, one Example with matching tags, one
\* with a tag missing, one with a tag too many
ValSplits == {<<>>,
              <<[tokens |-> <<1, 2>>, tags |-> <<1, 2>>]>>,
              <<[tokens |-> <<1, 2>>, tags |-> <<1>>]>>,
              <<[tokens |-> <<1>>, tags |-> <<1, 2>>]>>}

idleEval == /\ dataset = <<>> /\ model = 0 /\ all_preds = <<>> /\ all_labels = <<>>
            /\ f1 = <<>>
idleMain == /\ filepath = <<>> /\ userType = "" /\ contents = <<>>
            /\ effects = <<>> /\ stdout = <<>>
idleClean == /\ text = <<>> /\ cleaned = <<>>
idleTrain == /\ examples = <<>> /\ encoded = <<>> /\ batch_size = 0
             /\ val_examples = <<>> /\ val_encoded = <<>> /\ val_data = <<>>

Init ==
    /\ pc = "train_encoded"
    /\ error = "none"
    /\ \E ex \in Examples, rest \in SeqsUpTo(Corpus, MaxN - 1) :
          examples = <<ex>> \o rest
    /\ encoded = <<>>
    /\ val_examples \in ValSplits
    /\ val_encoded = <<>>
    /\ batch_size = default_batch_size
    /\ val_data = <<>>
    /\ idleEval /\ idleMain /\ idleClean

\* one step of the train_encoded list comprehension: encode the next Example
EncodeTrain ==
    /\ pc = "train_encoded"
    /\ LET ex == examples[Len(encoded) + 1]
       IN  IF AlignRaises(WordIds(ex.tokens), ex.tags)
           THEN /\ error' = "IndexError"
                /\ pc' = "raised"
                /\ UNCHANGED encoded
           ELSE /\ encoded' = Append(encoded, tokenize_and_align_labels(ex.tokens, ex.tags))
                /\ pc' = IF Len(encoded) + 1 < Len(examples) THEN "train_encoded"
                         ELSE IF val_examples # <<>> THEN "val_encoded"
                         ELSE "train_data"
                /\ UNCHANGED error
    /\ UNCHANGED <<examples, val_examples, val_encoded, batch_size, val_data,
                   evalVars, mainVars, cleanVars>>

\* one step of the val_encoded list comprehension
EncodeVal ==
    /\ pc = "val_encoded"
    /\ LET ex == val_examples[Len(val_encoded) + 1]
       IN  IF AlignRaises(WordIds(ex.tokens), ex.tags)
           THEN /\ error' = "IndexError"
                /\ pc' = "raised"
                /\ UNCHANGED val_encoded
           ELSE /\ val_encoded' = Append(val_encoded,
                                         tokenize_and_align_labels(ex.tokens, ex.tags))
                /\ pc' = IF Len(val_encoded) + 1 < Len(val_examples) THEN "val_encoded"
                         ELSE "train_data"
                /\ UNCHANGED error
    /\ UNCHANGED <<examples, encoded, val_examples, batch_size, val_data,
                   evalVars, mainVars, cleanVars>>

\* train_data = make_dataset(train_encoded), and once that has returned,
\* val_data = make_dataset(val_encoded); both with the default batch size
MakeDataset ==
    /\ pc \in {"train_data", "val_data"}
    /\ LET encodings == IF pc = "train_data" THEN encoded ELSE val_encoded
       IN  IF make_dataset_error(encodings) # "none"
           THEN /\ error' = make_dataset_error(encodings)
                /\ pc' = "raised"
                /\ UNCHANGED <<dataset, val_data>>
           ELSE /\ IF pc = "train_data"
                   THEN /\ dataset' = padded_batch(encodings, batch_size)
                        /\ pc' = "val_data"
                        /\ UNCHANGED val_data
                   ELSE /\ val_data' = padded_batch(encodings, batch_size)
                        /\ pc' = "callbacks"
                        /\ UNCHANGED dataset
                /\ UNCHANGED error
    /\ UNCHANGED <<examples, encoded, val_examples, val_encoded, batch_size,
                   model, all_preds, all_labels, f1, mainVars, cleanVars>>

Next == EncodeTrain \/ EncodeVal \/ MakeDataset

Spec == Init /\ [][Next]_vars

\* every Example paired with its encoding, training then validation
EncodedPairs ==
    [k \in 1..Len(encoded) |-> [ex |-> examples[k], e |-> encoded[k]]]
    \o [k \in 1..Len(val_encoded) |-> [ex |-> val_examples[k], e |-> val_encoded[k]]]

\* make_dataset(train_encoded) has been called
MakeDatasetCalled ==
    \/ pc \in {"val_data", "callbacks"}
    \/ pc = "raised" /\ error # "IndexError"

\* every training Example keeps the invariant len(tokens) == len(tags)
AllMatched == \A k \in 1..Len(examples) : Len(examples[k].tokens) = Len(examples[k].tags)

-----------------------------------------------------------------------------
(* get_seqeval_input (evaluation.py).                                      *)

\* the classifiers tried
Models == 0..2

\* tf.argmax(model(input).logits): the classifier is external; classifier m
\* answers by the token id alone
Predict(m, input_id) == (input_id + m) % Len(label_list)

RECURSIVE RowNames(_, _, _)
\* the inner loop over j < n: the names of ids[j] where weights[j] is not 0
RowNames(ids, weights, n) ==
    IF n = 0 THEN <<>>
    ELSE LET before == RowNames(ids, weights, n - 1)
         IN  IF weights[n] = 0 THEN before ELSE Append(before, id2label(ids[n]))

\* what one pass of the loop over i adds to all_preds or all_labels
AppendExample(all, row) == Append(Append(all, row), row)

RECURSIVE BatchLabels(_, _, _)
\* all_labels after rows 1..i of batch
BatchLabels(all, batch, i) ==
    IF i = 0 THEN all
    ELSE AppendExample(BatchLabels(all, batch, i - 1),
                       RowNames(batch.labels[i], batch.label_mask[i],
                                Len(batch.labels[i])))

RECURSIVE BatchPreds(_, _, _, _)
\* all_preds after rows 1..i of batch
BatchPreds(all, batch, m, i) ==
    IF i = 0 THEN all
    ELSE AppendExample(BatchPreds(all, batch, m, i - 1),
                       RowNames([j \in 1..Len(batch.input_ids[i]) |->
                                    Predict(m, batch.input_ids[i][j])],
                                batch.label_mask[i], Len(batch.input_ids[i])))

RECURSIVE get_seqeval_input(_, _, _)
\* (all_preds, all_labels) after batches 1..b
get_seqeval_input(m, ds, b) ==
    IF b = 0 THEN [all_preds |-> <<>>, all_labels |-> <<>>]
    ELSE LET before == get_seqeval_input(m, ds, b - 1)
         IN  [all_preds  |-> BatchPreds(before.all_preds, ds[b], m,
                                        Len(ds[b].labels)),
              all_labels |-> BatchLabels(before.all_labels, ds[b],
                                         Len(ds[b].labels))]

-----------------------------------------------------------------------------
(* Properties of the training script.                                      *)

\* the positions of encoding e that come from word w (0-based)
PositionsOf(e, w) == {i \in 1..Len(e.word_ids) : e.word_ids[i] = w}

\* the words of encoding e that keep at least one sub-word, in word order
RECURSIVE KeptWords(_, _)
KeptWords(e, n) ==
    IF n = 0 THEN <<>>
    ELSE IF PositionsOf(e, n - 1) # {} THEN Append(KeptWords(e, n - 1), n - 1)
    ELSE KeptWords(e, n - 1)

\* C1: in the encoding of an Example with len(tokens) == len(tags), each word
\* that has a sub-word position has loss-mask 1 at exactly one position, its
\* first, whose label is tags[word]; its other positions have label 0 and
\* loss-mask 0.
C1_FirstSubwordCarriesTag ==
    \A k \in 1..Len(EncodedPairs) :
        LET ex == EncodedPairs[k].ex
            e == EncodedPairs[k].e
        IN  Len(ex.tokens) = Len(ex.tags) =>
                \A w \in 0..(Len(ex.tokens) - 1) :
                    LET P == PositionsOf(e, w)
                    IN  P # {} =>
                            LET first == CHOOSE i \in P : \A j \in P : i <= j
                            IN  /\ e.label_mask[first] = 1
                                /\ e.labels[first] = ex.tags[w + 1]
                                /\ \A i \in P \ {first} :
                                      e.label_mask[i] = 0 /\ e.labels[i] = 0

\* C1 witness: an encoded Example with matching lengths and a word cut into
\* several sub-words whose tag is not O
C1_Witness ==
    \E k \in 1..Len(EncodedPairs) :
        LET ex == EncodedPairs[k].ex
        IN  /\ Len(ex.tokens) = Len(ex.tags)
            /\ \E w \in 0..(Len(ex.tokens) - 1) :
                  /\ Cardinality(PositionsOf(EncodedPairs[k].e, w)) >= 2
                  /\ ex.tags[w + 1] # 0

\* C8: in every encoding, a position whose loss-mask is 0 has label id 0.
C8_MaskedLabelIsZero ==
    \A k \in 1..Len(EncodedPairs) :
        LET e == EncodedPairs[k].e
        IN  \A i \in 1..Len(e.labels) : e.label_mask[i] = 0 => e.labels[i] = 0

\* C8 witness: an encoding with a continuation sub-word (loss-mask 0) of a
\* word tagged I-SKILL
C8_Witness ==
    \E k \in 1..Len(EncodedPairs) :
        LET ex == EncodedPairs[k].ex
            e == EncodedPairs[k].e
        IN  \E i \in 2..Len(e.word_ids) :
                /\ e.word_ids[i] # None
                /\ e.word_ids[i] = e.word_ids[i - 1]
                /\ e.word_ids[i] < Len(ex.tags)
                /\ ex.tags[e.word_ids[i] + 1] = 2
                /\ e.label_mask[i] = 0

\* C5: an Example whose tags are shorter or longer than its tokens is never
\* turned into an encoding: tokenize_and_align_labels raises instead.
C5_MismatchRejected ==
    \A k \in 1..Len(EncodedPairs) :
        Len(EncodedPairs[k].ex.tokens) = Len(EncodedPairs[k].ex.tags)

\* C4: make_dataset on N encodings with batch size B yields ceil(N/B) batches
\* in input order, each but the last of B rows, each padded to its longest
\* row with 0, every other position keeping the encoding's value (stated of
\* train_data = make_dataset(train_encoded)).
C4_BatchesPadded ==
    MakeDatasetCalled =>
        /\ dataset # <<>>
        /\ Len(dataset) = CeilDiv(Len(encoded), batch_size)
        /\ \A b \in 1..Len(dataset) :
              LET rows == Len(dataset[b].labels)
                  lo == (b - 1) * batch_size
              IN  /\ b < Len(dataset) => rows = batch_size
                  /\ rows = Min(batch_size, Len(encoded) - lo)
                  /\ \A f \in Fields, r \in 1..rows :
                        /\ \E q \in 1..rows :
                              Len(dataset[b][f][r]) = Len(encoded[lo + q][f])
                        /\ \A q \in 1..rows :
                              Len(dataset[b][f][r]) >= Len(encoded[lo + q][f])
                        /\ \A j \in 1..Len(dataset[b][f][r]) :
                              dataset[b][f][r][j] =
                                  IF j <= Len(encoded[lo + r][f])
                                  THEN encoded[lo + r][f][j] ELSE 0

\* C3: every Example that went through tokenize_and_align_labels and
\* make_dataset comes out of get_seqeval_input with a predicted list and a
\* true list of one length, its word count.
C3_ListsHaveWordCount ==
    (MakeDatasetCalled /\ AllMatched) =>
        /\ dataset # <<>>
        /\ \A m \in Models :
              LET out == get_seqeval_input(m, dataset, Len(dataset))
              IN  /\ Len(out.all_labels) >= Len(examples)
                  /\ \A k \in 1..Len(out.all_labels) :
                        \E x \in 1..Len(examples) :
                            /\ Len(out.all_labels[k]) = Len(examples[x].tokens)
                            /\ Len(out.all_preds[k]) = Len(examples[x].tokens)

\* C10: aligning an Example, batching it and reading the true labels back in
\* get_seqeval_input gives the names of tags[0..k-1], k the number of words
\* that keep a sub-word after truncation.
C10_RoundTrip ==
    (MakeDatasetCalled /\ AllMatched) =>
        /\ dataset # <<>>
        /\ \A m \in Models :
              LET out == get_seqeval_input(m, dataset, Len(dataset))
              IN  /\ Len(out.all_labels) >= Len(examples)
                  /\ \A x \in 1..Len(examples) :
                        \E k \in 1..Len(out.all_labels) :
                            out.all_labels[k] =
                                [w \in 1..Len(KeptWords(encoded[x], Len(examples[x].tokens)))
                                    |-> id2label(examples[x].tags[w])]

-----------------------------------------------------------------------------
(* Evaluation of a data set of batches laid out as padded_batch lays them  *)
(* out: rows of one batch share one length, padded with the padding values.*)

\* seqeval (external): y_true or y_pred as one sequence, an O after each
\* example
RECURSIVE Flatten(_, _)
Flatten(seqs, n) ==
    IF n = 0 THEN <<>> ELSE Flatten(seqs, n - 1) \o seqs[n] \o <<"O">>

\* seqeval (external): the SKILL spans of a flattened sequence, <<start, end>>:
\* a span starts at a B-SKILL, or at an I-SKILL that follows an O or nothing,
\* and runs over the I-SKILLs that follow
Entities(flat) ==
    {<<i, j>> \in (1..Len(flat)) \X (1..Len(flat)) :
        /\ i <= j
        /\ \/ flat[i] = "B-SKILL"
           \/ flat[i] = "I-SKILL" /\ (i = 1 \/ flat[i - 1] = "O")
        /\ \A k \in (i + 1)..j : flat[k] = "I-SKILL"
        /\ j = Len(flat) \/ flat[j + 1] # "I-SKILL"}

\* seqeval (external): spans predicted, spans true, spans in both
SpanCounts(y_true, y_pred) ==
    LET t == Entities(Flatten(y_true, Len(y_true)))
        p == Entities(Flatten(y_pred, Len(y_pred)))
    IN  [correct |-> Cardinality(t \cap p), predicted |-> Cardinality(p),
         support |-> Cardinality(t)]

\* classification_report(y_true, y_pred): the SKILL row, as counts
classification_report(y_true, y_pred) ==
    [label |-> "SKILL"] @@ SpanCounts(y_true, y_pred)

\* f1_score(y_true, y_pred) = 2 * correct / (predicted + support), 0 when
\* there is no span: kept as <<numerator, denominator>>
f1_score(y_true, y_pred) ==
    LET c == SpanCounts(y_true, y_pred)
    IN  IF c.predicted + c.support = 0 THEN <<0, 1>>
        ELSE <<2 * c.correct, c.predicted + c.support>>

EvalExamples ==
    {[tokens |-> t, tags |-> g] : t \in SeqsUpTo({0, 1, 2}, MaxWords), g \in Tags}

Encodings(exs) == [k \in 1..Len(exs) |-> tokenize_and_align_labels(exs[k].tokens, exs[k].tags)]

InitEval ==
    /\ pc = "eval"
    /\ error = "none"
    /\ \E exs \in {<<>>} \cup {<<ex>> \o rest : ex \in {e \in EvalExamples : Len(e.tokens) = Len(e.tags)},
                                               rest \in SeqsUpTo(Corpus, MaxN - 1)} :
          /\ examples = exs
          /\ encoded = Encodings(exs)
    /\ batch_size \in 1..MaxBatch
    /\ dataset = padded_batch(encoded, batch_size)
    /\ model \in Models
    /\ all_preds = <<>>
    /\ all_labels = <<>>
    /\ f1 = <<>>
    /\ val_examples = <<>> /\ val_encoded = <<>> /\ val_data = <<>>
    /\ idleMain /\ idleClean

\* y_pred, y_true = get_seqeval_input(model, dataset, id2label)
GetSeqevalInput ==
    /\ pc = "eval"
    /\ LET out == get_seqeval_input(model, dataset, Len(dataset))
       IN  /\ all_preds' = out.all_preds
           /\ all_labels' = out.all_labels
    /\ pc' = "report"
    /\ UNCHANGED <<error, trainVars, dataset, model, f1, mainVars, cleanVars>>

\* print(classification_report(y_true, y_pred))
ClassificationReport ==
    /\ pc = "report"
    /\ stdout' = Append(stdout, classification_report(all_labels, all_preds))
    /\ pc' = "f1_score"
    /\ UNCHANGED <<error, trainVars, evalVars, filepath, userType, contents,
                   effects, cleanVars>>

\* f1 = f1_score(y_true, y_pred); return f1
F1Score ==
    /\ pc = "f1_score"
    /\ f1' = f1_score(all_labels, all_preds)
    /\ pc' = "returned"
    /\ UNCHANGED <<error, trainVars, dataset, model, all_preds, all_labels,
                   mainVars, cleanVars>>

NextEval == GetSeqevalInput \/ ClassificationReport \/ F1Score

SpecEval == InitEval /\ [][NextEval]_vars

\* C2: get_seqeval_input returns one entry per example in each collection,
\* in batch order then row order: entry k is example k's.
C2_EachExampleOnce ==
    pc # "eval" =>
        /\ Len(all_preds) = Len(encoded)
        /\ Len(all_labels) = Len(encoded)
        /\ \A k \in 1..Len(encoded) :
              all_labels[k] = RowNames(encoded[k].labels, encoded[k].label_mask,
                                       Len(encoded[k].labels))

-----------------------------------------------------------------------------
(* clean_cv_text (input_to_text.py).  A character is a one-character       *)
(* string; "U+2022" and "U+2014" stand for the bullet and the em dash.     *)

\* the characters \s matches, among those used here
Whitespace == {" ", "\n", "\t"}

\* the characters \d matches, among those used here
Digits == {"1", "2"}

\* the class [U+2022 U+25CF U+25AA U+25A0 U+2013 U+2014]
Glyphs == {"U+2022", "U+25CF", "U+25AA", "U+25A0", "U+2013", "U+2014"}

\* str.lower() on one character
LowerChar(c) ==
    CASE c = "A" -> "a"
      [] c = "P" -> "p"
      [] c = "T" -> "t"
      [] c = "X" -> "x"
      [] OTHER -> c

\* str.lower()
Lower(t) == [i \in 1..Len(t) |-> LowerChar(t[i])]

RECURSIVE RunEnd(_, _, _)
\* the first index at or after i whose character is not in S
RunEnd(t, i, S) == IF i <= Len(t) /\ t[i] \in S THEN RunEnd(t, i + 1, S) ELSE i

RECURSIVE CollapseFrom(_, _, _, _)
\* re.sub of the pattern [S]+ by the one character r, from index i on
CollapseFrom(t, i, S, r) ==
    IF i > Len(t) THEN <<>>
    ELSE IF t[i] \in S THEN <<r>> \o CollapseFrom(t, RunEnd(t, i, S), S, r)
    ELSE <<t[i]>> \o CollapseFrom(t, i + 1, S, r)

\* t[i..] starts with the literal lit
StartsAt(t, i, lit) ==
    /\ i + Len(lit) - 1 <= Len(t)
    /\ \A k \in 1..Len(lit) : t[i + k - 1] = lit[k]

\* where a match of 'page \d+ of \d+' that starts at i ends (the index after
\* it), 0 when there is none
FooterEnd(t, i) ==
    IF ~StartsAt(t, i, <<"p", "a", "g", "e", " ">>) THEN 0
    ELSE LET d1 == RunEnd(t, i + 5, Digits)
         IN  IF d1 = i + 5 \/ ~StartsAt(t, d1, <<" ", "o", "f", " ">>) THEN 0
             ELSE LET d2 == RunEnd(t, d1 + 4, Digits)
                  IN  IF d2 = d1 + 4 THEN 0 ELSE d2

RECURSIVE RemoveFooters(_, _)
\* re.sub(r'page \d+ of \d+', '', t), from index i on: one left-to-right pass
RemoveFooters(t, i) ==
    IF i > Len(t) THEN <<>>
    ELSE IF FooterEnd(t, i) # 0 THEN RemoveFooters(t, FooterEnd(t, i))
    ELSE <<t[i]>> \o RemoveFooters(t, i + 1)

\* re.sub(r'[glyphs]', ' ', t)
ReplaceGlyphs(t) == [i \in 1..Len(t) |-> IF t[i] \in Glyphs THEN " " ELSE t[i]]

\* str.strip()
Strip(t) ==
    LET keep == {i \in 1..Len(t) : t[i] \notin Whitespace}
    IN  IF keep = {} THEN <<>>
        ELSE SubSeq(t, CHOOSE i \in keep : \A j \in keep : i <= j,
                       CHOOSE i \in keep : \A j \in keep : i >= j)

clean_cv_text(t) ==
    LET lowered   == Lower(t)
        newlines  == CollapseFrom(lowered, 1, {"\n"}, "\n")
        spaces    == CollapseFrom(newlines, 1, Whitespace, " ")
        nofooter  == RemoveFooters(spaces, 1)
        noglyphs  == ReplaceGlyphs(nofooter)
    IN  Strip(noglyphs)

-----------------------------------------------------------------------------
(* Texts: a text is up to MaxPieces pieces, one after the other.           *)

MaxPieces == 4

TextPieces == {<<"A">>, <<" ">>, <<"\n">>, <<"U+2022">>,
               <<"P", "a", "g", "e", " ", "1">>, <<" ", "o", "f", " ", "2">>}

RECURSIVE Concat(_, _)
\* pieces[1] \o ... \o pieces[n]
Concat(pieces, n) == IF n = 0 THEN <<>> ELSE Concat(pieces, n - 1) \o pieces[n]

Texts == {Concat(ps, Len(ps)) : ps \in SeqsUpTo(TextPieces, MaxPieces)}

InitClean ==
    /\ pc = "clean"
    /\ error = "none"
    /\ text \in Texts
    /\ cleaned = <<>>
    /\ idleTrain /\ idleEval /\ idleMain

\* cleaned = clean_cv_text(text)
CleanCvText ==
    /\ pc = "clean"
    /\ cleaned' = clean_cv_text(text)
    /\ pc' = "done"
    /\ UNCHANGED <<error, text, trainVars, evalVars, mainVars>>

NextClean == CleanCvText

SpecClean == InitClean /\ [][NextClean]_vars

\* C9: the text clean_cv_text returns is lowercase, has no leading or
\* trailing whitespace, no newline, no two whitespace characters in a row,
\* no 'page N of M' footer and no bullet or long-dash glyph.
C9_CleanText ==
    pc = "done" =>
        /\ cleaned = Lower(cleaned)
        /\ cleaned # <<>> => /\ cleaned[1] \notin Whitespace
                             /\ cleaned[Len(cleaned)] \notin Whitespace
        /\ \A i \in 1..Len(cleaned) : cleaned[i] # "\n"
        /\ \A i \in 1..(Len(cleaned) - 1) :
              ~(cleaned[i] \in Whitespace /\ cleaned[i + 1] \in Whitespace)
        /\ \A i \in 1..Len(cleaned) : FooterEnd(cleaned, i) = 0
        /\ \A i \in 1..Len(cleaned) : cleaned[i] \notin Glyphs

-----------------------------------------------------------------------------
(* extract_text (input_to_text.py) and run_main_pipeline (main.py).        *)

RECURSIVE LastIndex(_, _, _)
\* str.rfind of one character, searched in t[1..n]: its 1-based index, 0
\* when t has none
LastIndex(t, c, n) ==
    IF n = 0 THEN 0 ELSE IF t[n] = c THEN n ELSE LastIndex(t, c, n - 1)

\* os.path.splitext(p)[1]: from the last dot of the last path component on,
\* unless only dots come before it in that component
splitext_ext(path) ==
    LET sepIndex == LastIndex(path, "/", Len(path))
        dotIndex == LastIndex(path, ".", Len(path))
    IN  IF /\ dotIndex > sepIndex
           /\ \E k \in (sepIndex + 1)..(dotIndex - 1) : path[k] # "."
        THEN SubSeq(path, dotIndex, Len(path))
        ELSE <<>>

Docx == <<".", "d", "o", "c", "x">>
Pdf == <<".", "p", "d", "f">>
Txt == <<".", "t", "x", "t">>

\* faulty variant of FileType: the extension is compared as written, not
\* lower-cased
FileTypeAsWritten(path) == splitext_ext(path)

\* type = os.path.splitext(filepath)[1].lower()
FileType(path) == Lower(splitext_ext(path))

\* the branch extract_text takes: what it reads the file with, or "raise"
ExtractBranch(path) ==
    CASE FileType(path) = Docx -> "docx_to_text"
      [] FileType(path) = Pdf -> "pdf_to_text"
      [] FileType(path) = Txt -> "open"
      [] OTHER -> "raise"

\* def extract_skills(input, pipeline)
extract_skills_params == <<"input", "pipeline">>

\* the call extract_skills(input, model=skillner, tokenizer=tokenizer)
call_positional == 1
call_keywords == {"model", "tokenizer"}

\* Python binds a call's arguments to the parameters, or raises TypeError:
\* every keyword names a parameter no positional argument filled, and every
\* parameter is filled
CallBinds(params, npos, kws) ==
    /\ npos <= Len(params)
    /\ kws \subseteq {params[i] : i \in (npos + 1)..Len(params)}
    /\ \A i \in (npos + 1)..Len(params) : params[i] \in kws

\* what the token-classification pipeline may answer: spans with a score
SkillLists ==
    {<<>>,
     <<[word |-> "python", score |-> 99]>>,
     <<[word |-> "python", score |-> 99], [word |-> "aws", score |-> 87]>>}

\* isJobSeeker: computed from userType and read by nothing (send_to_db is
\* commented out)
isJobSeeker(ut) == ut # "company"

\* the lines of the print loop
Printed(skills) ==
    [i \in 1..Len(skills) |->
        [n |-> i - 1, skill |-> skills[i].word, confidence |-> skills[i].score]]

MaxPathPieces == 3

PathPieces == {<<"c", "v">>, <<".">>, <<"/">>, <<"t", "x", "t">>, <<"T", "X", "T">>,
               <<"p", "d", "f">>, <<"P", "d", "f">>, <<"d", "o", "c", "x">>,
               <<"d", "o", "c">>}

Paths == {Concat(ps, Len(ps)) : ps \in SeqsUpTo(PathPieces, MaxPathPieces)}

FileTexts == {<<"A", " ", "U+2022", "A">>, <<"a", "w", "s">>}

InitMain ==
    /\ pc = "extract_text"
    /\ error = "none"
    /\ filepath \in Paths
    /\ userType \in {"company", "admin"}
    /\ contents \in FileTexts
    /\ effects = <<>>
    /\ stdout = <<>>
    /\ text = <<>>
    /\ cleaned = <<>>
    /\ idleTrain /\ idleEval

\* input = extract_text(filepath=filepath)
ExtractText ==
    /\ pc = "extract_text"
    /\ IF ExtractBranch(filepath) = "raise"
       THEN /\ error' = "ValueError"
            /\ pc' = "raised"
            /\ UNCHANGED <<effects, text, cleaned>>
       ELSE /\ effects' = Append(effects, ExtractBranch(filepath))
            /\ text' = contents
            /\ cleaned' = clean_cv_text(contents)
            /\ pc' = "load_skillner"
            /\ UNCHANGED error
    /\ UNCHANGED <<filepath, userType, contents, stdout, trainVars, evalVars>>

\* loaded = load_skillner()
LoadSkillner ==
    /\ pc = "load_skillner"
    /\ effects' = Append(effects, "load_skillner")
    /\ pc' = "extract_skills"
    /\ UNCHANGED <<error, filepath, userType, contents, stdout, text, cleaned,
                   trainVars, evalVars>>

\* extracted_skills = extract_skills(input, model=..., tokenizer=...), then
\* the print loop
ExtractSkills ==
    /\ pc = "extract_skills"
    /\ IF CallBinds(extract_skills_params, call_positional, call_keywords)
       THEN \E skills \in SkillLists :
                /\ effects' = Append(effects, "extract_skills")
                /\ stdout' = Printed(skills)
                /\ pc' = "done"
                /\ UNCHANGED error
       ELSE /\ error' = "TypeError"
            /\ pc' = "raised"
            /\ UNCHANGED <<effects, stdout>>
    /\ UNCHANGED <<filepath, userType, contents, text, cleaned, trainVars, evalVars>>

NextMain == ExtractText \/ LoadSkillner \/ ExtractSkills

SpecMain == InitMain /\ [][NextMain]_vars

\* run_main_pipeline has returned or raised
MainEnded == pc \in {"done", "raised"}

\* C6: on a path with a supported extension run_main_pipeline extracts the
\* text, loads the model, extracts the skills, in that order, prints one
\* numbered line per skill and raises nothing.
C6_PipelineCompletes ==
    (MainEnded /\ Lower(splitext_ext(filepath)) \in {Docx, Pdf, Txt}) =>
        /\ error = "none"
        /\ Len(effects) = 3
        /\ effects[2] = "load_skillner"
        /\ effects[3] = "extract_skills"
        /\ \A i \in 1..Len(stdout) : stdout[i].n = i - 1

\* C7 as stated: extract_text raises the unsupported-file-type error exactly
\* for the paths whose extension is not .docx, .pdf or .txt.
C7_RaisesUnlessExactExtension ==
    pc # "extract_text" =>
        ((pc = "raised" /\ error = "ValueError" /\ effects = <<>>)
            <=> splitext_ext(filepath) \notin {Docx, Pdf, Txt})

\* C7 amended: extract_text raises the unsupported-file-type error exactly
\* for the paths whose extension, lower-cased, is not .docx, .pdf or .txt,
\* and it raises it before any file is read or any model loaded.
C7_RaisesUnlessExtensionIgnoringCase ==
    pc # "extract_text" =>
        /\ (error = "ValueError")
              <=> Lower(splitext_ext(filepath)) \notin {Docx, Pdf, Txt}
        /\ error = "ValueError" => pc = "raised" /\ effects = <<>>
        /\ error # "ValueError" => Len(effects) >= 1 /\ effects[1] # "load_skillner"

\* C7 witness: extract_text has raised on a path that ends in .doc, before
\* anything was read or loaded
C7_Witness ==
    /\ pc = "raised"
    /\ error = "ValueError"
    /\ effects = <<>>
    /\ splitext_ext(filepath) = <<".", "d", "o", "c">>

====
